---- MODULE Spec2Model ----
(***************************************************************************)
(* Account backend of Next-LMS: registration with an e-mailed activation   *)
(* code, activation, login and logout.  The request handlers are modelled  *)
(* as processes that are cut at their await points, so that concurrent     *)
(* requests interleave exactly where the Node event loop lets them.        *)
(*                                                                         *)
(* Sources: server/controllers/user.controller.ts (current revision, with  *)
(* loginUser / logoutUser, found as src/unnamed/part_001 lines 84..359),   *)
(* server/models/user.model.ts, server/utils/jwt.ts,                       *)
(* server/middleware/error.ts, server/utils/ErrorHandle.ts.                *)
(***************************************************************************)
EXTENDS Integers, Sequences, FiniteSets, Bags, TLC

(***************************************************************************)
(* Bounds of the exploration.                                              *)
(***************************************************************************)
MaxTokens == 2
MaxTicks == 1
MaxSaves == 1

\* two clients, enough for any two requests to overlap
Clients == {1, 2}

(***************************************************************************)
(* Program constants.  Time is counted in seconds.                         *)
(***************************************************************************)
ActivationExpiresIn == 600
AccessTokenExpire == 300
RefreshTokenExpire == 1200
PasswordMinLength == 6
BcryptRounds == 10
CodeBase == 1000
CodeSpan == 9000
LogoutMaxAgeMs == 1
RetryDelayMs == 5000

\* the clock advances by one activation lifetime at a time
TickSeconds == ActivationExpiresIn

(***************************************************************************)
(* Input alphabets.  An e-mail address is a sequence of characters so that *)
(* the schema's pattern is evaluated, not assumed.                         *)
(***************************************************************************)
EmailA == <<"a", "@", "x", ".", "c">>
EmailB == <<"b", "@", "x", ".", "c">>
EmailBad == <<"b", "@", "x">>
NoEmail == <<>>
Passwords == {"secret1", "hunter22", "abc"}
Salts == {1}

\* the request bodies tried: registrations, and logins (with a missing field)
Registrations ==
    { [name |-> "Alice", email |-> EmailA, password |-> "secret1"],
      [name |-> "Alice", email |-> EmailA, password |-> "abc"],
      [name |-> "Alice", email |-> EmailBad, password |-> "secret1"] }
Logins ==
    { [email |-> EmailA, password |-> "secret1"],
      [email |-> EmailA, password |-> "hunter22"],
      [email |-> EmailBad, password |-> "secret1"],
      [email |-> NoEmail, password |-> "secret1"],
      [email |-> EmailA, password |-> ""] }

\* Math.random() returns k / RandomDen for some k in 0..RandomDen-1; the two
\* ends of the range are tried
RandomDen == CodeSpan
RandomNums == {0, RandomDen - 1}

NoExp == -1

(***************************************************************************)
(* Deployment: the environment variables read through process.env and the  *)
(* ECMAScript target the TypeScript sources are compiled to.  An unset     *)
(* variable is the empty string (both are falsy for || and for the JWT     *)
(* library's secret check).                                                *)
(***************************************************************************)
Unset == ""
\* JWT_ACTIVATION_EXPIRES_TIME is read by the earlier createActivationToken only;
\* it holds seconds, or NoExp when unset
EnvConfigs ==
    { [JWT_ACTIVATION_SECRET |-> "act-secret", JWT_ACCESS_TOKEN |-> "acc-secret",
       JWT_REFRESH_TOKEN |-> "ref-secret",
       JWT_ACTIVATION_EXPIRES_TIME |-> ActivationExpiresIn],
      [JWT_ACTIVATION_SECRET |-> "act-secret", JWT_ACCESS_TOKEN |-> Unset,
       JWT_REFRESH_TOKEN |-> Unset, JWT_ACTIVATION_EXPIRES_TIME |-> NoExp],
      [JWT_ACTIVATION_SECRET |-> Unset, JWT_ACCESS_TOKEN |-> Unset,
       JWT_REFRESH_TOKEN |-> Unset, JWT_ACTIVATION_EXPIRES_TIME |-> NoExp] }
\* the outcomes a build of the sources can produce
BuildTargets == {"ES5", "ES2015"}

(***************************************************************************)
(* Values.                                                                 *)
(***************************************************************************)
NoUser == [name |-> "", email |-> NoEmail, password |-> ""]
NoPassword == [fmt |-> "absent", rounds |-> 0, salt |-> 0, digest |-> ""]
NoDoc == [id |-> 0, name |-> "", email |-> NoEmail, password |-> NoPassword,
          role |-> "", isVerified |-> FALSE]
NoToken == [kind |-> "none", user |-> NoUser, activationCode |-> "", id |-> 0,
            iat |-> 0, exp |-> NoExp, sig |-> ""]
GarbageToken == [NoToken EXCEPT !.kind = "garbage"]
NoCookie == [set |-> FALSE, value |-> NoToken, maxAge |-> 0]
NoErr == [getter |-> FALSE, name |-> "", message |-> "", privStatus |-> 0,
          statusCode |-> 0, code |-> 0]

(***************************************************************************)
(* user.model.ts: schema validation, pre-save hook, comparePassword.       *)
(***************************************************************************)
\* emailRegexPattern /^[^\s@]+@[^\s@]+\.[^\s@]+$/
EmailRegexTest(e) ==
    \E a \in 1..Len(e), d \in 1..Len(e) :
        /\ 1 < a /\ a + 1 < d /\ d < Len(e)
        /\ e[a] = "@" /\ e[d] = "."
        /\ \A k \in 1..Len(e) : k # a => e[k] \notin {"@", " "}

\* mutation: the schema has no validators
ValidationFailure_None(name, email, password) == ""

\* The first validator of the schema that rejects the document, or "" if none.
ValidationFailure(name, email, password) ==
    IF name = "" THEN "Please enter your name."
    ELSE IF email = NoEmail THEN "Please enter your email."
    ELSE IF ~EmailRegexTest(email) THEN "Please enter a valid email address."
    ELSE IF password = "" THEN "Please enter your password."
    ELSE IF Len(password) < PasswordMinLength
         THEN "Password must be at least 6 characters long."
    ELSE ""

\* bcrypt.hash(password, 10): a salted digest in the "$2a$10$" format
BcryptHash(password, salt) ==
    [fmt |-> "$2a$", rounds |-> BcryptRounds, salt |-> salt, digest |-> password]

\* the value a string field holds when it is stored as it was given
PlainText(password) == [fmt |-> "", rounds |-> 0, salt |-> 0, digest |-> password]

\* mutation: the comparison is an equality of strings
BcryptCompare_PlainEquality(password, stored) == stored = PlainText(password)

\* bcrypt.compare(password, stored): false for anything that is not a hash
BcryptCompare(password, stored) ==
    stored.fmt = "$2a$" /\ stored.digest = password

\* mutation: the hook leaves the password as it was given
PreSaveHook_StoresPlain(password, salt) == PlainText(password)

\* UserSchema.pre('save'): a new document has its password modified
PreSaveHook(password, salt) == BcryptHash(password, salt)

\* the string a stored hash is read back as ("$2a$10$" salt digest)
HashString(stored) == ToString(stored)

\* UserSchema.pre('save') as a whole, on a document whose password field holds
\* the string field: `if (!this.isModified('password')) next();` does not
\* return, so the hash and the second next() follow in either case
PreSaveRun(field, isModified, salt) ==
    [password |-> PreSaveHook(field, salt),
     nextCalls |-> IF isModified THEN 1 ELSE 2]

\* mutation: the password of an unverified user never matches
comparePassword_VerifiedOnly(doc, password) ==
    doc.isVerified /\ BcryptCompare(password, doc.password)

comparePassword(doc, password) == BcryptCompare(password, doc.password)

\* userModel.create({name, email, password}): the schema defaults fill the rest
NewUserDoc(id, name, email, password, salt) ==
    [id |-> id, name |-> name, email |-> email,
     password |-> PreSaveHook(password, salt),
     role |-> "user", isVerified |-> FALSE]

(***************************************************************************)
(* jsonwebtoken as the sources use it.                                     *)
(***************************************************************************)
JwtOk(token) == [ok |-> TRUE, name |-> "", message |-> "", token |-> token]
JwtFail(name, message) ==
    [ok |-> FALSE, name |-> name, message |-> message, token |-> NoToken]

\* jwt.sign(payload, secret, {expiresIn}) at time t; expiresIn = NoExp: no exp claim
JwtSign(user, code, id, secret, expiresIn, t) ==
    IF secret = Unset
    THEN JwtFail("Error", "secretOrPrivateKey must have a value")
    ELSE JwtOk([kind |-> "jwt", user |-> user, activationCode |-> code, id |-> id,
                iat |-> t,
                exp |-> IF expiresIn = NoExp THEN NoExp ELSE t + expiresIn,
                sig |-> secret])

\* The payload of a signed token is base64url-encoded JSON, not encrypted:
\* whoever holds the token reads it without the secret.
JwtDecode(token) ==
    IF token.kind = "jwt"
    THEN [user |-> token.user, activationCode |-> token.activationCode,
          id |-> token.id, iat |-> token.iat, exp |-> token.exp]
    ELSE [user |-> NoUser, activationCode |-> "", id |-> 0, iat |-> 0, exp |-> NoExp]

\* mutation: the exp claim is not looked at
JwtVerify_IgnoresExp(token, secret, t) ==
    IF token.kind # "jwt" THEN JwtFail("JsonWebTokenError", "jwt malformed")
    ELSE IF secret = Unset
         THEN JwtFail("JsonWebTokenError", "secret or public key must be provided")
    ELSE IF token.sig # secret THEN JwtFail("JsonWebTokenError", "invalid signature")
    ELSE JwtOk(token)

\* mutation: the signature is not looked at
JwtVerify_IgnoresSignature(token, secret, t) ==
    IF token.kind # "jwt" THEN JwtFail("JsonWebTokenError", "jwt malformed")
    ELSE IF secret = Unset
         THEN JwtFail("JsonWebTokenError", "secret or public key must be provided")
    ELSE IF token.exp # NoExp /\ t >= token.exp
         THEN JwtFail("TokenExpiredError", "jwt expired")
    ELSE JwtOk(token)

\* jwt.verify(token, secret) at time t
JwtVerify(token, secret, t) ==
    IF token.kind # "jwt" THEN JwtFail("JsonWebTokenError", "jwt malformed")
    ELSE IF secret = Unset
         THEN JwtFail("JsonWebTokenError", "secret or public key must be provided")
    ELSE IF token.sig # secret THEN JwtFail("JsonWebTokenError", "invalid signature")
    ELSE IF token.exp # NoExp /\ t >= token.exp
         THEN JwtFail("TokenExpiredError", "jwt expired")
    ELSE JwtOk(token)

\* Math.floor(1000 + Math.random() * 9000).toString()
ActivationCodeOf(k) == ToString((CodeBase * RandomDen + k * CodeSpan) \div RandomDen)

\* createActivationToken(user)
createActivationToken(user, k, cfg, t) ==
    [activationCode |-> ActivationCodeOf(k),
     signed |-> JwtSign(user, ActivationCodeOf(k), 0,
                        cfg.JWT_ACTIVATION_SECRET, ActivationExpiresIn, t)]

\* The earlier createActivationToken, kept in the sources beside the current
\* one: Math.floor(1000 + Math.random() * 9000 + 1).toString()
ActivationCodeOfVariant(k) ==
    ToString((CodeBase * RandomDen + k * CodeSpan + RandomDen) \div RandomDen)

\* ... and jwt.sign with expiresIn: process.env.JWT_ACTIVATION_EXPIRES_TIME,
\* which the library refuses when it is undefined
createActivationTokenVariant(user, k, cfg, t) ==
    [activationCode |-> ActivationCodeOfVariant(k),
     signed |-> IF cfg.JWT_ACTIVATION_SECRET # Unset
                   /\ cfg.JWT_ACTIVATION_EXPIRES_TIME = NoExp
                THEN JwtFail("Error", "\"expiresIn\" should be a number of seconds or string representing a timespan")
                ELSE JwtSign(user, ActivationCodeOfVariant(k), 0,
                             cfg.JWT_ACTIVATION_SECRET,
                             cfg.JWT_ACTIVATION_EXPIRES_TIME, t)]

\* mutation: the access token is signed for no user in particular
SignAccessToken_NoId(doc, cfg, t) ==
    JwtSign(NoUser, "", 0, cfg.JWT_ACCESS_TOKEN, NoExp, t)

\* UserSchema.methods.SignAccessToken / SignRefreshToken
SignAccessToken(doc, cfg, t) ==
    JwtSign(NoUser, "", doc.id, cfg.JWT_ACCESS_TOKEN, NoExp, t)

\* mutation: the refresh token is signed with the access token's secret
SignRefreshToken_AccessSecret(doc, cfg, t) ==
    JwtSign(NoUser, "", doc.id, cfg.JWT_ACCESS_TOKEN, NoExp, t)

SignRefreshToken(doc, cfg, t) ==
    JwtSign(NoUser, "", doc.id, cfg.JWT_REFRESH_TOKEN, NoExp, t)

(***************************************************************************)
(* ErrorHandle.ts and middleware/error.ts.                                 *)
(*                                                                         *)
(* An error object is [getter, name, message, privStatus, statusCode,      *)
(* code]: privStatus is the private field _statusCode, statusCode an own   *)
(* property (0 = undefined), and getter tells whether the object inherits  *)
(* ErrorHandle.prototype, whose statusCode accessor has a getter and no    *)
(* setter.  Compiled to ES5, "class ErrorHandle extends Error" returns the *)
(* object made by Error(), which does not inherit that prototype.          *)
(***************************************************************************)
ErrorHandle(message, statusCode, tgt) ==
    [getter |-> (tgt # "ES5"), name |-> "Error", message |-> message,
     privStatus |-> statusCode, statusCode |-> 0, code |-> 0]

\* the value of the expression err.statusCode (0 = undefined)
StatusCodeOf(err) == IF err.getter THEN err.privStatus ELSE err.statusCode

NoResp == [sent |-> "none", status |-> 0, success |-> FALSE, message |-> "",
           activationToken |-> NoToken, accessToken |-> NoToken, user |-> NoDoc,
           access_cookie |-> NoCookie, refresh_cookie |-> NoCookie]

\* res.status(status).json({success, message})
JsonResp(status, success, message) ==
    [NoResp EXCEPT !.sent = "json", !.status = status, !.success = success,
                   !.message = message]

TypeErrorMsg == "Cannot set property statusCode of Error which has only a getter"
InvalidStatusMsg == "Invalid status code: undefined"

\* an exception that escapes the error middleware: the framework's own answer
FrameworkError(message) ==
    [NoResp EXCEPT !.sent = "html", !.status = 500, !.message = message]

\* error.ts lines 38..74: the replacement by name / code
Normalized(err, tgt) ==
    IF err.name = "CastError"
    THEN ErrorHandle("Resource not found. Invalid: path", 400, tgt)
    ELSE IF err.code = 11000
    THEN ErrorHandle("Duplicate email entered", 400, tgt)
    ELSE IF err.name = "JsonWebTokenError"
    THEN ErrorHandle("JSON Web Token is invalid. Try Again!!!", 400, tgt)
    ELSE IF err.name = "TokenExpiredError"
    THEN ErrorHandle("JSON Web Token is expired. Try Again!!!", 400, tgt)
    ELSE err

\* error.ts lines 25..30: the defaults, written into the error object
WithDefaults(err) ==
    [err EXCEPT !.statusCode = IF @ = 0 THEN 500 ELSE @,
                !.message = IF @ = "" THEN "Internal Server Error" ELSE @]

ErrorMiddleware(err, tgt) ==
    IF err.getter
    THEN FrameworkError(TypeErrorMsg)
    ELSE LET e2 == Normalized(WithDefaults(err), tgt)
         IN  IF StatusCodeOf(e2) = 0
             THEN FrameworkError(InvalidStatusMsg)
             ELSE JsonResp(StatusCodeOf(e2), FALSE, e2.message)

(***************************************************************************)
(* State.                                                                  *)
(***************************************************************************)
VARIABLES
    env,      \* process.env, fixed at start
    now,      \* wall clock, seconds
    users,    \* Credential Store: the documents of the users collection, in order of creation
    origin,   \* history: origin[i] is the activation token whose redemption created users[i]
    redis,    \* Session Cache: user id -> JSON snapshot
    mails,    \* notifications delivered, a bag of [to, code]
    issued,   \* activation tokens returned to callers
    pc,       \* per client: position of its request in the handler
    args,     \* per client: the request body
    loc,      \* per client: the handler's local variables
    began,    \* per client, history: collection size and time when the request arrived
    last,     \* the request completed by the latest step, if any: what the handler did
    seen,     \* history: the failure of loginUser last met for each cause
    db,       \* connectDB: where it stands, and the retry timers pending
    reachable,\* whether the store accepts connections
    hook      \* the latest run of the pre-save hook on a stored document

vars == <<env, now, users, origin, redis, mails, issued, pc, args, loc,
          began, last, seen, db, reachable, hook>>

NoArgs == [name |-> "", email |-> NoEmail, password |-> "", token |-> NoToken,
           code |-> ""]
NoLoc == [token |-> NoToken, code |-> "", doc |-> NoDoc]
NoBegan == [len |-> 0, at |-> 0]
NoFailure == [message |-> "", statusCode |-> 0]

\* a completed request: via = "res" (res.json(body)) or "next" (next(new
\* ErrorHandle(message, statusCode))); cause names the branch or the caught fault
NoLast == [client |-> 0, op |-> "none", args |-> NoArgs, began |-> NoBegan,
           via |-> "none", cause |-> "", message |-> "", statusCode |-> 0,
           body |-> NoResp]

StoreFaultMsg == "connect ECONNREFUSED 127.0.0.1:27017"
DuplicateKeyMsg == "E11000 duplicate key error collection: users index: email_1 dup key"
RenderFaultMsg == "ENOENT: no such file or directory, open activation-mail.ejs"
MailFaultMsg == "connect ECONNREFUSED 127.0.0.1:587"
DeliveryFaults == {RenderFaultMsg, MailFaultMsg}

\* Errors that are not ErrorHandle objects: the one the catch-all route makes
\* (statusCode 404), one with neither status nor message, and the library
\* errors the middleware knows by name or code
PlainError(name, message, statusCode, code) ==
    [NoErr EXCEPT !.name = name, !.message = message, !.statusCode = statusCode,
                  !.code = code]
PlainErrors ==
    { PlainError("Error", "Route /x does not exist", 404, 0),
      PlainError("Error", "", 0, 0),
      PlainError("CastError", "Cast to ObjectId failed", 0, 0),
      PlainError("MongoServerError", DuplicateKeyMsg, 0, 11000),
      PlainError("JsonWebTokenError", "invalid signature", 401, 0),
      PlainError("TokenExpiredError", "jwt expired", 0, 0) }

ActivationCodes == {ActivationCodeOf(k) : k \in RandomNums}
ForgedToken ==
    [kind |-> "jwt", user |-> [name |-> "Alice", email |-> EmailA, password |-> "secret1"],
     activationCode |-> "1000", id |-> 0, iat |-> 0, exp |-> ActivationExpiresIn,
     sig |-> "attacker-secret"]

\* mutation: no document is ever found
FindOne_FindsNothing(store, email) == NoDoc

\* userModel.findOne({ email }): the document, or NoDoc
FindOne(store, email) ==
    IF \E i \in 1..Len(store) : store[i].email = email
    THEN store[CHOOSE i \in 1..Len(store) : store[i].email = email]
    ELSE NoDoc

Idle(p) == pc[p] = "idle"

\* connectDB() has been called from the listen callback and awaits
\* mongoose.connect; failed remembers that an attempt has failed
Connecting == [state |-> "connecting", timers |-> 0, delay |-> 0, failed |-> FALSE]

\* no document has been saved again yet
NoHook == [saves |-> 0, nextCalls |-> 0, password |-> NoPassword]

\* the clients whose registration is in flight
Registering == {q \in Clients : pc[q] \in {"reg_find", "reg_send"}}

Init ==
    /\ env \in EnvConfigs
    /\ now = 0
    /\ users = <<>> /\ origin = <<>>
    /\ redis = <<>>
    /\ mails = EmptyBag /\ issued = {}
    /\ pc = [p \in Clients |-> "idle"]
    /\ args = [p \in Clients |-> NoArgs]
    /\ loc = [p \in Clients |-> NoLoc]
    /\ began = [p \in Clients |-> NoBegan]
    /\ last = NoLast
    /\ seen = [c \in {"unknown_email", "wrong_password"} |-> NoFailure]
    /\ db = Connecting
    /\ reachable = TRUE
    /\ hook = NoHook

\* the handler suspends at an await
Await(p, label, body, locals, arrival) ==
    /\ pc' = [pc EXCEPT ![p] = label]
    /\ args' = [args EXCEPT ![p] = body]
    /\ loc' = [loc EXCEPT ![p] = locals]
    /\ began' = [began EXCEPT ![p] = arrival]
    /\ last' = NoLast

\* the handler returns: the request is over and its locals are gone
Return(p, operation, body, arrival, via, cause, message, statusCode, response) ==
    /\ pc' = [pc EXCEPT ![p] = "idle"]
    /\ args' = [args EXCEPT ![p] = NoArgs]
    /\ loc' = [loc EXCEPT ![p] = NoLoc]
    /\ began' = [began EXCEPT ![p] = NoBegan]
    /\ last' = [client |-> p, op |-> operation, args |-> body, began |-> arrival,
                via |-> via, cause |-> cause, message |-> message,
                statusCode |-> statusCode, body |-> response]

\* mutation: the handler answers the failure itself and calls next as well
Fail_AlsoAnswers(p, operation, body, arrival, cause, message, statusCode) ==
    Return(p, operation, body, arrival, "next", cause, message, statusCode,
           JsonResp(statusCode, FALSE, message))

\* return next(new ErrorHandle(message, statusCode))
Fail(p, operation, body, arrival, cause, message, statusCode) ==
    Return(p, operation, body, arrival, "next", cause, message, statusCode, NoResp)

\* res.status(..).json(..)
Succeed(p, operation, body, arrival, response) ==
    Return(p, operation, body, arrival, "res", "", "", 0, response)

\* what the caller receives for a completed request, in a build for tgt
ResponseOf(done, tgt) ==
    IF done.via = "next"
    THEN ErrorMiddleware(ErrorHandle(done.message, done.statusCode, tgt), tgt)
    ELSE done.body

(***************************************************************************)
(* registerUser                                                            *)
(***************************************************************************)
\* POST /registration arrives; the handler runs up to  await userModel.findOne
RegisterStart(p, r) ==
    /\ Idle(p)
    /\ BagCardinality(mails) + Cardinality(Registering) < MaxTokens
    /\ Await(p, "reg_find",
             [NoArgs EXCEPT !.name = r.name, !.email = r.email, !.password = r.password],
             NoLoc, [len |-> Len(users), at |-> now])
    /\ UNCHANGED <<env, db, reachable, hook, now, users, origin, redis, mails, issued, seen>>

\* findOne answers; on no match the token is made and the mail is being sent
RegisterFind(p) ==
    /\ pc[p] = "reg_find"
    /\ \/ Fail(p, "register", args[p], began[p], "store", StoreFaultMsg, 400)
       \/ /\ FindOne(users, args[p].email) # NoDoc
          /\ Fail(p, "register", args[p], began[p], "exists", "Email already exists.", 400)
       \/ /\ FindOne(users, args[p].email) = NoDoc
          /\ \E k \in RandomNums :
                LET user == [name |-> args[p].name, email |-> args[p].email,
                             password |-> args[p].password]
                    activationToken == createActivationToken(user, k, env, now)
                IN  IF activationToken.signed.ok
                    THEN Await(p, "reg_send", args[p],
                               [NoLoc EXCEPT !.token = activationToken.signed.token,
                                             !.code = activationToken.activationCode],
                               began[p])
                    ELSE Fail(p, "register", args[p], began[p], "sign",
                              activationToken.signed.message, 400)
    /\ UNCHANGED <<env, db, reachable, hook, now, users, origin, redis, mails, issued, seen>>

\* mutation: the mail carries a code of its own
Notification_OtherCode(email, code) == [to |-> email, code |-> "0000"]

\* sendMail({email: user.email, ..., data}): data holds the activation code
Notification(email, code) == [to |-> email, code |-> code]

\* mutation: a delivery fault is swallowed and the token returned all the same
DeliveryFailed_Swallowed(p, m) ==
    /\ Return(p, "register", args[p], began[p], "res", "delivery", "", 0,
              [JsonResp(201, TRUE, "An email has been sent.")
                  EXCEPT !.activationToken = loc[p].token])
    /\ issued' = issued \cup {loc[p].token}
    /\ UNCHANGED mails

\* catch (error) around sendMail, and the outer catch for ejs.renderFile
DeliveryFailed(p, m) ==
    /\ Fail(p, "register", args[p], began[p], "delivery", m, 400)
    /\ UNCHANGED <<mails, issued>>

\* ejs.renderFile and sendMail settle: delivered, or one of them threw
RegisterSend(p) ==
    /\ pc[p] = "reg_send"
    /\ \/ \E m \in DeliveryFaults : DeliveryFailed(p, m)
       \/ /\ mails' = mails (+) SetToBag({Notification(args[p].email, loc[p].code)})
          /\ issued' = issued \cup {loc[p].token}
          /\ Succeed(p, "register", args[p], began[p],
                     [JsonResp(201, TRUE, "An email has been sent.")
                         EXCEPT !.activationToken = loc[p].token])
    /\ UNCHANGED <<env, db, reachable, hook, now, users, origin, redis, seen>>

\* The earlier registerUser, kept in the sources beside the current one: the
\* same flow around the earlier createActivationToken, answering 200.
RegisterFindVariant(p) ==
    /\ pc[p] = "reg_find"
    /\ \/ Fail(p, "register", args[p], began[p], "store", StoreFaultMsg, 400)
       \/ /\ FindOne(users, args[p].email) # NoDoc
          /\ Fail(p, "register", args[p], began[p], "exists", "Email already exists.", 400)
       \/ /\ FindOne(users, args[p].email) = NoDoc
          /\ \E k \in RandomNums :
                LET user == [name |-> args[p].name, email |-> args[p].email,
                             password |-> args[p].password]
                    activationToken == createActivationTokenVariant(user, k, env, now)
                IN  IF activationToken.signed.ok
                    THEN Await(p, "reg_send", args[p],
                               [NoLoc EXCEPT !.token = activationToken.signed.token,
                                             !.code = activationToken.activationCode],
                               began[p])
                    ELSE Fail(p, "register", args[p], began[p], "sign",
                              activationToken.signed.message, 400)
    /\ UNCHANGED <<env, db, reachable, hook, now, users, origin, redis, mails, issued, seen>>

RegisterSendVariant(p) ==
    /\ pc[p] = "reg_send"
    /\ \/ \E m \in DeliveryFaults : DeliveryFailed(p, m)
       \/ /\ mails' = mails (+) SetToBag({Notification(args[p].email, loc[p].code)})
          /\ issued' = issued \cup {loc[p].token}
          /\ Succeed(p, "register", args[p], began[p],
                     [JsonResp(200, TRUE, "An email has been sent.")
                         EXCEPT !.activationToken = loc[p].token])
    /\ UNCHANGED <<env, db, reachable, hook, now, users, origin, redis, seen>>

(***************************************************************************)
(* activateUser                                                            *)
(***************************************************************************)
\* mutation: the submitted code is never found to differ
CodeDiffers_Never(embedded, submitted) == FALSE

\* newUser.activationCode !== activation_code
CodeDiffers(embedded, submitted) == embedded # submitted

\* mutation: a token is refused once another one was issued for its e-mail
ActivateStart_SupersededRefused(p, token, code) ==
    /\ Idle(p)
    /\ LET body == [NoArgs EXCEPT !.token = token, !.code = code]
           arrival == [len |-> Len(users), at |-> now]
           newUser == JwtVerify(token, env.JWT_ACTIVATION_SECRET, now)
       IN  IF ~newUser.ok
           THEN Fail(p, "activate", body, arrival, newUser.name, newUser.message, 400)
           ELSE IF \E other \in issued :
                      other # token /\ other.user.email = token.user.email
           THEN Fail(p, "activate", body, arrival, "JsonWebTokenError",
                     "invalid token", 400)
           ELSE IF CodeDiffers(newUser.token.activationCode, code)
           THEN Fail(p, "activate", body, arrival, "code", "Invalid activation code.", 400)
           ELSE Await(p, "act_find", body, [NoLoc EXCEPT !.token = newUser.token], arrival)
    /\ UNCHANGED <<env, db, reachable, hook, now, users, origin, redis, mails, issued,
                   seen>>

\* POST /activation arrives; jwt.verify and the code comparison run at once
ActivateStart(p, token, code) ==
    /\ Idle(p)
    /\ LET body == [NoArgs EXCEPT !.token = token, !.code = code]
           arrival == [len |-> Len(users), at |-> now]
           newUser == JwtVerify(token, env.JWT_ACTIVATION_SECRET, now)
       IN  IF ~newUser.ok
           THEN Fail(p, "activate", body, arrival, newUser.name, newUser.message, 400)
           ELSE IF CodeDiffers(newUser.token.activationCode, code)
           THEN Fail(p, "activate", body, arrival, "code", "Invalid activation code.", 400)
           ELSE Await(p, "act_find", body, [NoLoc EXCEPT !.token = newUser.token], arrival)
    /\ UNCHANGED <<env, db, reachable, hook, now, users, origin, redis, mails, issued, seen>>

\* findOne answers
ActivateFind(p) ==
    /\ pc[p] = "act_find"
    /\ \/ Fail(p, "activate", args[p], began[p], "store", StoreFaultMsg, 400)
       \/ /\ FindOne(users, loc[p].token.user.email) # NoDoc
          /\ Fail(p, "activate", args[p], began[p], "exists", "Email already exists.", 400)
       \/ /\ FindOne(users, loc[p].token.user.email) = NoDoc
          /\ Await(p, "act_create", args[p], loc[p], began[p])
    /\ UNCHANGED <<env, db, reachable, hook, now, users, origin, redis, mails, issued, seen>>

\* mutation: the collection has no unique index
UniqueIndexAdmits_NoIndex(store, email) == TRUE

\* the unique index on email admits the insert
UniqueIndexAdmits(store, email) == \A i \in 1..Len(store) : store[i].email # email

\* userModel.create answers: validation, pre-save hook, insert under the unique index
ActivateCreate(p) ==
    /\ pc[p] = "act_create"
    /\ LET u == loc[p].token.user
           invalid == ValidationFailure(u.name, u.email, u.password)
       IN  \/ /\ invalid = ""
              /\ Fail(p, "activate", args[p], began[p], "store", StoreFaultMsg, 400)
              /\ UNCHANGED <<users, origin>>
           \/ /\ invalid # ""
              /\ Fail(p, "activate", args[p], began[p], "ValidationError", invalid, 400)
              /\ UNCHANGED <<users, origin>>
           \/ /\ invalid = ""
              /\ ~UniqueIndexAdmits(users, u.email)
              /\ Fail(p, "activate", args[p], began[p], "MongoServerError",
                      DuplicateKeyMsg, 400)
              /\ UNCHANGED <<users, origin>>
           \/ /\ invalid = ""
              /\ UniqueIndexAdmits(users, u.email)
              /\ \E salt \in Salts :
                    users' = Append(users, NewUserDoc(Len(users) + 1, u.name, u.email,
                                                      u.password, salt))
              /\ origin' = Append(origin, loc[p].token)
              /\ Succeed(p, "activate", args[p], began[p],
                         JsonResp(201, TRUE, "Account has been activated."))
    /\ UNCHANGED <<env, db, reachable, hook, now, redis, mails, issued, seen>>

(***************************************************************************)
(* loginUser, sendToken, logoutUser                                        *)
(***************************************************************************)
\* mutation: an unknown e-mail is told apart
UnknownUserFailure_Distinct == [message |-> "User not found.", statusCode |-> 404]

\* the failure of loginUser when no user has the e-mail
UnknownUserFailure == [message |-> "Invalid credentials.", statusCode |-> 401]
\* the failure of loginUser when the password does not match
WrongPasswordFailure == [message |-> "Invalid credentials.", statusCode |-> 401]

\* POST /login arrives; the presence check runs at once
\* mutation: the store is queried whatever the body holds
LoginStart_QueriesFirst(p, l) ==
    /\ Idle(p)
    /\ Await(p, "login_find", [NoArgs EXCEPT !.email = l.email, !.password = l.password],
             NoLoc, [len |-> Len(users), at |-> now])
    /\ UNCHANGED <<env, db, reachable, hook, now, users, origin, redis, mails, issued,
                   seen>>

LoginStart(p, l) ==
    /\ Idle(p)
    /\ LET body == [NoArgs EXCEPT !.email = l.email, !.password = l.password]
           arrival == [len |-> Len(users), at |-> now]
       IN  IF l.email = NoEmail \/ l.password = ""
           THEN Fail(p, "login", body, arrival, "missing",
                     "Please enter email & password.", 400)
           ELSE Await(p, "login_find", body, NoLoc, arrival)
    /\ UNCHANGED <<env, db, reachable, hook, now, users, origin, redis, mails, issued, seen>>

\* findOne({ email }).select("+password") answers
LoginFind(p) ==
    /\ pc[p] = "login_find"
    /\ \/ /\ Fail(p, "login", args[p], began[p], "store", StoreFaultMsg, 400)
          /\ UNCHANGED seen
       \/ /\ FindOne(users, args[p].email) = NoDoc
          /\ Fail(p, "login", args[p], began[p], "unknown_email",
                  UnknownUserFailure.message, UnknownUserFailure.statusCode)
          /\ seen' = [seen EXCEPT !["unknown_email"] = UnknownUserFailure]
       \/ /\ FindOne(users, args[p].email) # NoDoc
          /\ Await(p, "login_compare", args[p],
                   [NoLoc EXCEPT !.doc = FindOne(users, args[p].email)], began[p])
          /\ UNCHANGED seen
    /\ UNCHANGED <<env, db, reachable, hook, now, users, origin, redis, mails, issued>>

\* the user member of the login response body: the document as it was loaded
ResponseUser(doc) == doc

\* mutation: the cookie is not set
TokenCookie_NotSet(token, expireSeconds) == NoCookie

\* the cookie options of sendToken: maxAge in milliseconds
TokenCookie(token, expireSeconds) ==
    [set |-> TRUE, value |-> token, maxAge |-> expireSeconds * 1000]

\* mutation: the write replaces the whole cache
RedisSet_FreshCache(cache, doc) == [i \in {doc.id} |-> doc]

\* redis.set(user._id, JSON.stringify(user))
RedisSet(cache, doc) ==
    [i \in DOMAIN cache \cup {doc.id} |-> IF i = doc.id THEN doc ELSE cache[i]]

\* comparePassword answers; on a match sendToken(user, 200, res) runs
LoginCompare(p) ==
    /\ pc[p] = "login_compare"
    /\ LET user == loc[p].doc
           accessToken == SignAccessToken(user, env, now)
           refreshToken == SignRefreshToken(user, env, now)
       IN  IF ~comparePassword(user, args[p].password)
           THEN /\ Fail(p, "login", args[p], began[p], "wrong_password",
                        WrongPasswordFailure.message, WrongPasswordFailure.statusCode)
                /\ seen' = [seen EXCEPT !["wrong_password"] = WrongPasswordFailure]
                /\ UNCHANGED redis
           ELSE IF ~accessToken.ok
           THEN /\ Fail(p, "login", args[p], began[p], "sign", accessToken.message, 400)
                /\ UNCHANGED <<redis, seen>>
           ELSE IF ~refreshToken.ok
           THEN /\ Fail(p, "login", args[p], began[p], "sign", refreshToken.message, 400)
                /\ UNCHANGED <<redis, seen>>
           ELSE /\ redis' = RedisSet(redis, user)
                /\ Succeed(p, "login", args[p], began[p],
                       [JsonResp(200, TRUE, "") EXCEPT
                          !.accessToken = accessToken.token,
                          !.user = ResponseUser(user),
                          !.access_cookie =
                              TokenCookie(accessToken.token, AccessTokenExpire),
                          !.refresh_cookie =
                              TokenCookie(refreshToken.token, RefreshTokenExpire)])
                /\ UNCHANGED seen
    /\ UNCHANGED <<env, db, reachable, hook, now, users, origin, mails, issued>>

\* mutation: logout removes the sessions from the cache
Logout_Revokes(p) ==
    /\ Idle(p)
    /\ Succeed(p, "logout", NoArgs, [len |-> Len(users), at |-> now],
           [JsonResp(200, TRUE, "Logged out successfully.") EXCEPT
              !.access_cookie = [set |-> TRUE, value |-> NoToken, maxAge |-> LogoutMaxAgeMs],
              !.refresh_cookie = [set |-> TRUE, value |-> NoToken, maxAge |-> LogoutMaxAgeMs]])
    /\ redis' = <<>>
    /\ UNCHANGED <<env, db, reachable, hook, now, users, origin, mails, issued, seen>>

\* GET /logout: both cookies are replaced by null ones that expire at once
Logout(p) ==
    /\ Idle(p)
    /\ Succeed(p, "logout", NoArgs, [len |-> Len(users), at |-> now],
           [JsonResp(200, TRUE, "Logged out successfully.") EXCEPT
              !.access_cookie = [set |-> TRUE, value |-> NoToken, maxAge |-> LogoutMaxAgeMs],
              !.refresh_cookie = [set |-> TRUE, value |-> NoToken, maxAge |-> LogoutMaxAgeMs]])
    /\ UNCHANGED <<env, db, reachable, hook, now, users, origin, redis, mails, issued, seen>>

\* time passes
Tick ==
    /\ now < MaxTicks * TickSeconds
    /\ now' = now + TickSeconds
    /\ last' = NoLast
    /\ UNCHANGED <<env, db, reachable, hook, users, origin, redis, mails, issued, pc, args, loc, began,
                   seen>>

(***************************************************************************)
(* connectDB.  The handlers' store faults are chosen freely, whatever the  *)
(* state of the connection.                                                *)
(***************************************************************************)
\* mutation: a failed attempt is logged and nothing is scheduled
ConnectFailed_NoRetry(conn) == [conn EXCEPT !.state = "waiting", !.failed = TRUE]

\* catch (error): console.log(error.message); setTimeout(connectDB, 5000)
ConnectFailed(conn) ==
    [conn EXCEPT !.state = "waiting", !.failed = TRUE, !.timers = @ + 1,
                 !.delay = RetryDelayMs]

\* await mongoose.connect(dbUrl) settles: resolved, connectDB returns; rejected,
\* the catch block runs
ConnectSettles ==
    /\ db.state = "connecting"
    /\ db' = IF reachable THEN [db EXCEPT !.state = "connected"] ELSE ConnectFailed(db)
    /\ last' = NoLast
    /\ UNCHANGED <<env, reachable, hook, now, users, origin, redis, mails, issued, pc,
                   args, loc, began, seen>>

\* the timer set by setTimeout fires: connectDB runs again
RetryTimer ==
    /\ db.timers > 0
    /\ db' = [db EXCEPT !.state = "connecting", !.timers = @ - 1, !.delay = 0]
    /\ last' = NoLast
    /\ UNCHANGED <<env, reachable, hook, now, users, origin, redis, mails, issued, pc,
                   args, loc, began, seen>>

\* the store goes down, or comes back
Outage ==
    /\ reachable' = ~reachable
    /\ last' = NoLast
    /\ UNCHANGED <<env, db, hook, now, users, origin, redis, mails, issued, pc, args,
                   loc, began, seen>>

(***************************************************************************)
(* document.save() on a stored document whose password was not modified.   *)
(* No handler of the controller calls it; the step stands for any caller,  *)
(* and runs the pre-save hook as Mongoose does.  The first next() lets the  *)
(* save go ahead while bcrypt.hash is still pending, so the write may or    *)
(* may not carry the password the hook assigns afterwards.                 *)
(***************************************************************************)
Resave(i) ==
    /\ hook.saves < MaxSaves
    /\ \A q \in Clients : Idle(q)
    /\ \E salt \in Salts :
          LET run == PreSaveRun(HashString(users[i].password), FALSE, salt)
          IN  /\ hook' = [saves |-> hook.saves + 1, nextCalls |-> run.nextCalls,
                          password |-> run.password]
              /\ \/ users' = users
                 \/ users' = [users EXCEPT ![i].password = run.password]
    /\ last' = NoLast
    /\ UNCHANGED <<env, db, reachable, now, origin, redis, mails, issued, pc, args,
                   loc, began, seen>>

\* a request arrives from one of the clients cs, with a body from the given sets
Arrival(cs, regs, tokens, codes, logins) ==
    \/ \E p \in cs, r \in regs : RegisterStart(p, r)
    \/ \E p \in cs, t \in tokens, c \in codes : ActivateStart(p, t, c)
    \/ \E p \in cs, l \in logins : LoginStart(p, l)
    \/ \E p \in cs : Logout(p)

\* a suspended handler resumes
Resume ==
    \/ \E p \in Clients : RegisterFind(p)
    \/ \E p \in Clients : RegisterSend(p)
    \/ \E p \in Clients : ActivateFind(p)
    \/ \E p \in Clients : ActivateCreate(p)
    \/ \E p \in Clients : LoginFind(p)
    \/ \E p \in Clients : LoginCompare(p)

\* Requests served one after the other, over the whole input alphabet.
Next ==
    \/ /\ \A q \in Clients : Idle(q)
       /\ Arrival({1}, Registrations, issued \cup {GarbageToken, ForgedToken},
                  ActivationCodes, Logins)
    \/ Resume
    \/ Tick

Spec == Init /\ [][Next]_vars

\* Requests of two clients overlapping at every await, over the bodies that
\* pass validation.
ConcRegistrations == {r \in Registrations : r.email = EmailA /\ r.password = "secret1"}
ConcLogins == {l \in Logins : l.email = EmailA /\ l.password # ""}

NextConc ==
    \/ Arrival(Clients, ConcRegistrations, issued, ActivationCodes, ConcLogins)
    \/ Resume

SpecConc == Init /\ [][NextConc]_vars

\* Requests of two clients overlapping at every await, for two accounts that
\* register and log in with their own passwords.
CacheRegistrations ==
    { [name |-> "Alice", email |-> EmailA, password |-> "secret1"],
      [name |-> "Bob", email |-> EmailB, password |-> "hunter22"] }
CacheLogins ==
    { [email |-> EmailA, password |-> "secret1"],
      [email |-> EmailB, password |-> "hunter22"] }

NextCache ==
    \/ Arrival(Clients, CacheRegistrations, issued, ActivationCodes, CacheLogins)
    \/ Resume

SpecCache == Init /\ [][NextCache]_vars

\* The earlier registerUser serving registrations one after the other.
NextVariant ==
    \/ /\ \A q \in Clients : Idle(q)
       /\ \E r \in Registrations : RegisterStart(1, r)
    \/ RegisterFindVariant(1)
    \/ RegisterSendVariant(1)
    \/ Tick

SpecVariant == Init /\ [][NextVariant]_vars

\* The server from its start: connectDB runs beside the handlers, here those
\* of login and logout.  The promise of mongoose.connect settles and a timer
\* that was set fires: the event loop leaves neither pending forever.
NextDB ==
    \/ /\ \A q \in Clients : Idle(q)
       /\ \/ \E l \in Logins : LoginStart(1, l)
          \/ Logout(1)
    \/ LoginFind(1)
    \/ ConnectSettles
    \/ RetryTimer
    \/ Outage

SpecDB == Init /\ [][NextDB]_vars /\ WF_vars(ConnectSettles) /\ WF_vars(RetryTimer)

\* Requests served one after the other over the bodies that pass validation,
\* with stored documents saved again in between.
NextSave ==
    \/ /\ \A q \in Clients : Idle(q)
       /\ Arrival({1}, ConcRegistrations, issued, ActivationCodes, ConcLogins)
    \/ Resume
    \/ \E i \in 1..Len(users) : Resave(i)

SpecSave == Init /\ [][NextSave]_vars

(***************************************************************************)
(* Properties.  `last` is the request completed by the step that led to    *)
(* the current state; a primed `last` in an action formula is the request  *)
(* the step completes.                                                     *)
(***************************************************************************)
ValidFields(u) == ValidationFailure(u.name, u.email, u.password) = ""
SecretsSet == env.JWT_ACCESS_TOKEN # Unset /\ env.JWT_REFRESH_TOKEN # Unset
\* the e-mail had no UserRecord when the request arrived
UnusedAtArrival(done, email) ==
    \A i \in 1..Len(users) : i <= done.began.len => users[i].email # email
\* a token returned by Register is redeemed with its own code before it expires
RedeemsIssuedToken(done) ==
    /\ done.op = "activate"
    /\ done.args.token \in issued
    /\ done.args.code = done.args.token.activationCode
    /\ done.began.at < done.args.token.exp

\* C1: Register followed by Activate with the issued token and the matching
\* code creates a UserRecord whose isVerified flag is true.
C1_ActivatedUserIsVerified ==
    (RedeemsIssuedToken(last) /\ last.via = "res")
        => \E i \in 1..Len(users) :
              /\ origin[i] = last.args.token
              /\ users[i].email = last.args.token.user.email
              /\ users[i].isVerified = TRUE

\* C2: for every UserRecord created by Activate the stored password is the
\* hash of the registered plaintext and never the plaintext; comparePassword
\* of that plaintext is true and of any other password false.
C2_PasswordStoredHashed ==
    \A i \in 1..Len(users) :
        LET plaintext == origin[i].user.password
        IN  /\ users[i].password = BcryptHash(plaintext, users[i].password.salt)
            /\ users[i].password # PlainText(plaintext)
            /\ comparePassword(users[i], plaintext)
            /\ \A w \in Passwords \ {plaintext} : ~comparePassword(users[i], w)

C2_Witness ==
    /\ RedeemsIssuedToken(last) /\ last.via = "res"
    /\ Len(users) > 0
    /\ origin[Len(users)] = last.args.token

\* C3: an Activate whose submitted code differs from the code embedded in a
\* valid, unexpired token fails with CodeMismatch ("Invalid activation code.",
\* 400) and the step leaves the Credential Store as it was.
C3_CodeMismatchFails ==
    [][ ( /\ last'.op = "activate"
          /\ JwtVerify(last'.args.token, env.JWT_ACTIVATION_SECRET, last'.began.at).ok
          /\ last'.args.token.activationCode # last'.args.code )
        => ( /\ last'.via = "next"
             /\ last'.message = "Invalid activation code."
             /\ last'.statusCode = 400
             /\ users' = users /\ origin' = origin ) ]_vars

C3_Witness ==
    /\ last.op = "activate"
    /\ last.args.token \in issued
    /\ last.began.at < last.args.token.exp
    /\ last.args.code # last.args.token.activationCode
    /\ last.cause = "code"

\* C4: an Activate made once the activation lifetime has elapsed since the
\* token was issued fails with the codec's expiry fault, whatever the code
\* (the token is verified before the code is compared), and creates nothing.
C4_ExpiredTokenFails ==
    [][ ( /\ last'.op = "activate"
          /\ last'.args.token \in issued
          /\ last'.began.at >= last'.args.token.iat + ActivationExpiresIn )
        => ( /\ last'.via = "next"
             /\ last'.cause = "TokenExpiredError"
             /\ last'.message = "jwt expired"
             /\ users' = users /\ origin' = origin ) ]_vars

C4_Witness ==
    /\ last.op = "activate"
    /\ last.args.token \in issued
    /\ last.began.at >= last.args.token.iat + ActivationExpiresIn
    /\ last.args.code = last.args.token.activationCode
    /\ last.cause = "TokenExpiredError"

\* C5: under every interleaving of two Registers for one e-mail and their
\* Activates, the store never holds two UserRecords with that e-mail (so at
\* most one Activate succeeds), and an Activate that meets the e-mail in the
\* store fails as a duplicate, by the existence check or by the unique index.
NoTwoRecordsPerEmail ==
    \A i, j \in 1..Len(users) : users[i].email = users[j].email => i = j
C5_OneActivationPerEmail ==
    /\ []NoTwoRecordsPerEmail
    /\ [][ ( /\ last'.op = "activate"
             /\ RedeemsIssuedToken(last')
             /\ ValidFields(last'.args.token.user)
             /\ last'.cause # "store"
             /\ FindOne(users, last'.args.token.user.email) # NoDoc )
           => ( /\ last'.via = "next"
                /\ last'.cause \in {"exists", "MongoServerError"}
                /\ last'.message \in {"Email already exists.", DuplicateKeyMsg}
                /\ users' = users /\ origin' = origin ) ]_vars

\* both existence checks ran before either create: the index rejects the loser
C5_Witness ==
    /\ RedeemsIssuedToken(last)
    /\ last.cause = "MongoServerError"
    /\ last.began.len = 0
    /\ Len(users) = 1
    /\ origin[1] # last.args.token

\* C6: Login with a known e-mail and a wrong password and Login with an
\* unknown e-mail fail alike: same message and status handed to the error
\* middleware, and the same response in every build.
C6_LoginFailuresAlike ==
    (seen["unknown_email"] # NoFailure /\ seen["wrong_password"] # NoFailure)
        => /\ seen["unknown_email"] = seen["wrong_password"]
           /\ \A tgt \in BuildTargets :
                 ErrorMiddleware(ErrorHandle(seen["unknown_email"].message,
                                             seen["unknown_email"].statusCode, tgt), tgt)
                 = ErrorMiddleware(ErrorHandle(seen["wrong_password"].message,
                                               seen["wrong_password"].statusCode, tgt), tgt)

C6_Witness ==
    /\ seen["unknown_email"] # NoFailure
    /\ seen["wrong_password"] # NoFailure
    /\ last.op = "login" /\ last.via = "next"

\* C7 as claimed: for any (name, email, password) with an unused e-mail,
\* Register, Activate with the returned token and code, Login with the same
\* e-mail and password: the Activate creates the user and the Login succeeds.
ActivationCreates(done) ==
    /\ done.via = "res"
    /\ \E i \in 1..Len(users) : origin[i] = done.args.token

LoginSucceeds(done) ==
    /\ done.via = "res"
    /\ done.body.status = 200 /\ done.body.success
    /\ done.body.accessToken.kind = "jwt"
    /\ done.body.access_cookie.set /\ done.body.access_cookie.value = done.body.accessToken
    /\ done.body.refresh_cookie.set /\ done.body.refresh_cookie.value.kind = "jwt"
    /\ done.body.user.email = done.args.email
    /\ done.body.accessToken.id = done.body.user.id
    /\ done.body.refresh_cookie.value.id = done.body.user.id

\* the Login is made with the e-mail and password of a user activated before
LoginOfActivatedUser(done) ==
    /\ done.op = "login"
    /\ \E i \in 1..Len(users) :
          /\ i <= done.began.len
          /\ users[i].email = done.args.email
          /\ origin[i].user.password = done.args.password

C7_AnyRegistrationLogsIn ==
    /\ ( /\ RedeemsIssuedToken(last)
         /\ UnusedAtArrival(last, last.args.token.user.email)
         /\ last.cause # "store" )
       => ActivationCreates(last)
    /\ (LoginOfActivatedUser(last) /\ last.cause # "store" /\ SecretsSet)
       => LoginSucceeds(last)

\* C7 as amended: the same, for registrations that pass the store's validation.
C7_ValidRegistrationLogsIn ==
    /\ ( /\ RedeemsIssuedToken(last)
         /\ ValidFields(last.args.token.user)
         /\ UnusedAtArrival(last, last.args.token.user.email)
         /\ last.cause # "store" )
       => ActivationCreates(last)
    /\ (LoginOfActivatedUser(last) /\ last.cause # "store" /\ SecretsSet)
       => LoginSucceeds(last)

C7_Witness ==
    /\ LoginOfActivatedUser(last)
    /\ LoginSucceeds(last)
    /\ \E i \in 1..Len(users) : origin[i] \in issued /\ users[i].email = last.args.email

\* C8: the access token issued at Login is no longer valid once the access
\* TTL has elapsed since it was issued, nor the refresh token once the
\* refresh TTL has.
C8_LoginTokensExpire ==
    (last.op = "login" /\ last.via = "res")
        => /\ ~JwtVerify(last.body.accessToken, env.JWT_ACCESS_TOKEN,
                         last.body.accessToken.iat + AccessTokenExpire).ok
           /\ ~JwtVerify(last.body.refresh_cookie.value, env.JWT_REFRESH_TOKEN,
                         last.body.refresh_cookie.value.iat + RefreshTokenExpire).ok

\* C9: the user object returned by a successful Login never contains the
\* password hash.
C9_LoginHidesPasswordHash ==
    (last.op = "login" /\ last.via = "res")
        => last.body.user.password = NoPassword

\* C10: a library exception met while handling a request is normalized before
\* the response is sent: an expired token is reported as TokenExpired, a bad
\* token as TokenInvalid, a duplicate key as DuplicateEmail, in every build.
C10_LibraryFaultsNormalized ==
    \A tgt \in BuildTargets :
        /\ last.cause = "TokenExpiredError"
           => ResponseOf(last, tgt).message = "JSON Web Token is expired. Try Again!!!"
        /\ last.cause = "JsonWebTokenError"
           => ResponseOf(last, tgt).message = "JSON Web Token is invalid. Try Again!!!"
        /\ last.cause = "MongoServerError"
           => ResponseOf(last, tgt).message
                 \in {"Duplicate email entered", "Email already exists."}

\* C11: every failed operation is answered, in every build, with the shape
\* {success: false, message} and with status 400 for a validation or
\* authentication failure, 401 for bad credentials and 500 for a store fault.
C11_FailuresAnsweredByKind ==
    last.via = "next"
        => \A tgt \in BuildTargets :
              LET r == ResponseOf(last, tgt)
              IN  /\ r.sent = "json" /\ r.success = FALSE
                  /\ r.message = last.message
                  /\ last.cause \in {"exists", "code", "missing", "ValidationError",
                                     "JsonWebTokenError", "TokenExpiredError"}
                     => r.status = 400
                  /\ last.cause \in {"unknown_email", "wrong_password"}
                     => r.status = 401
                  /\ last.cause = "store" => r.status = 500

\* the e-mail had a UserRecord when the request arrived
UsedAtArrival(done, email) ==
    \E i \in 1..Len(users) : i <= done.began.len /\ users[i].email = email

\* C12: a Register for an e-mail that is present in the Credential Store
\* fails as a duplicate ("Email already exists.", 400): no activation token
\* is issued or returned and no notification is sent.
C12_RegisterExistingEmailFails ==
    [][ ( /\ last'.op = "register"
          /\ UsedAtArrival(last', last'.args.email)
          /\ last'.cause # "store" )
        => ( /\ last'.via = "next"
             /\ last'.cause = "exists"
             /\ last'.message = "Email already exists."
             /\ last'.statusCode = 400
             /\ \A tgt \in BuildTargets :
                   ResponseOf(last', tgt).activationToken = NoToken
             /\ issued' = issued /\ mails' = mails ) ]_vars

C12_Witness ==
    /\ last.op = "register"
    /\ UsedAtArrival(last, last.args.email)
    /\ last.cause = "exists"

\* a step of some client's registerUser
RegisterStep ==
    \E p \in Clients :
        /\ pc'[p] # pc[p]
        /\ pc[p] \in {"reg_find", "reg_send"} \/ pc'[p] \in {"reg_find", "reg_send"}

\* C13: no step of Register changes the Credential Store or the Session
\* Cache; a Register that succeeds dispatches exactly one notification, to the
\* registered e-mail and with the code embedded in the returned token, and a
\* Register that fails dispatches none.
C13_RegisterFrame ==
    [][ RegisterStep
        => ( /\ users' = users /\ origin' = origin /\ redis' = redis
             /\ IF last'.op = "register" /\ last'.via = "res"
                THEN /\ last'.body.activationToken.kind = "jwt"
                     /\ last'.body.activationToken.user.email = last'.args.email
                     /\ mails' = mails (+) SetToBag(
                           {[to |-> last'.args.email,
                             code |-> last'.body.activationToken.activationCode]})
                ELSE mails' = mails ) ]_vars

\* the same registration made twice: two notifications, alike
C13_Witness ==
    /\ last.op = "register" /\ last.via = "res"
    /\ BagCardinality(mails) = 2
    /\ CopiesIn([to |-> last.args.email,
                 code |-> last.body.activationToken.activationCode], mails) = 2

\* C14: the Credential Store changes only by a successful Activate of a token
\* that Register issued, which appends one UserRecord for the e-mail in that
\* token; Register, Login, Logout and every failed Activate leave it unchanged.
C14_OnlyActivateCreates ==
    [][ users' # users
        => ( /\ last'.op = "activate" /\ last'.via = "res"
             /\ last'.args.token \in issued
             /\ Len(users') = Len(users) + 1
             /\ SubSeq(users', 1, Len(users)) = users
             /\ users'[Len(users')].email = last'.args.token.user.email
             /\ users'[Len(users')].name = last'.args.token.user.name
             /\ comparePassword(users'[Len(users')], last'.args.token.user.password) ) ]_vars

\* two registrations were made and the Activate of one has created the user
C14_Witness ==
    /\ last.op = "activate" /\ last.via = "res"
    /\ BagCardinality(mails) = 2
    /\ users = <<NewUserDoc(1, last.args.token.user.name, last.args.token.user.email,
                            last.args.token.user.password, users[1].password.salt)>>

\* C15: redeeming an issued, unexpired token with its code for an e-mail that
\* has a UserRecord already (the same token a second time, or another token
\* issued before the e-mail was activated) fails as a duplicate ("Email already
\* exists.", 400) and leaves the Credential Store unchanged.
C15_ActivationAtMostOnce ==
    [][ ( /\ last'.op = "activate"
          /\ RedeemsIssuedToken(last')
          /\ UsedAtArrival(last', last'.args.token.user.email)
          /\ last'.cause # "store" )
        => ( /\ last'.via = "next"
             /\ last'.cause = "exists"
             /\ last'.message = "Email already exists."
             /\ last'.statusCode = 400
             /\ users' = users /\ origin' = origin ) ]_vars

\* the token that created the user is redeemed again
C15_Witness ==
    /\ last.op = "activate"
    /\ RedeemsIssuedToken(last)
    /\ \E i \in 1..Len(users) : i <= last.began.len /\ origin[i] = last.args.token
    /\ last.cause = "exists"

\* C16: the Session Cache holds one entry per user id, each the snapshot of
\* the user with that id; a successful Login writes the snapshot of its user
\* under the user's id, replacing an earlier entry and leaving the entries of
\* other users alone, and no other step writes the cache - so under every
\* interleaving of Logins the entry is the snapshot one of them wrote.
CacheEntriesAreSnapshots ==
    \A id \in DOMAIN redis : id \in 1..Len(users) /\ redis[id] = users[id]
C16_SessionCacheLastWriteWins ==
    /\ []CacheEntriesAreSnapshots
    /\ [][ IF last'.op = "login" /\ last'.via = "res"
           THEN /\ DOMAIN redis' = DOMAIN redis \cup {last'.body.user.id}
                /\ redis'[last'.body.user.id] = last'.body.user
                /\ last'.body.user.email = last'.args.email
                /\ \A k \in DOMAIN redis \ {last'.body.user.id} : redis'[k] = redis[k]
           ELSE redis' = redis ]_vars

\* two Logins of one account overlapped while the other account had an entry
C16_Witness ==
    /\ last.op = "login" /\ last.via = "res"
    /\ DOMAIN redis = {1, 2}
    /\ \E q \in Clients :
          /\ pc[q] = "login_compare"
          /\ args[q].email = last.args.email
          /\ last.body.user.id \in DOMAIN redis

\* the instants of the model's clock
Instants == {k * TickSeconds : k \in 0..MaxTicks}

\* C17: Logout revokes nothing: the step leaves the Session Cache and the
\* Credential Store as they were, and every access token a Login has issued
\* up to then is accepted by verification after it, at that and every later
\* instant.
C17_LogoutRevokesNothing ==
    [][ last'.op = "logout"
        => ( /\ last'.via = "res"
             /\ redis' = redis /\ users' = users /\ origin' = origin
             /\ \A i \in 1..Len(users) :
                \A t \in {x \in Instants : x <= now} :
                \A v \in {x \in Instants : x >= now'} :
                   SignAccessToken(users[i], env, t).ok
                   => JwtVerify(SignAccessToken(users[i], env, t).token,
                                env.JWT_ACCESS_TOKEN, v)
                        = JwtOk(SignAccessToken(users[i], env, t).token) ) ]_vars

\* a Logout after a Login that succeeded: the session entry is still cached
C17_Witness ==
    /\ last.op = "logout" /\ last.via = "res"
    /\ now > 0
    /\ 1 \in DOMAIN redis
    /\ SignAccessToken(users[1], env, 0).ok

\* The session of a client is what its cookie jar holds: Authenticated with
\* both token cookies, Anonymous without.  A response that sets both cookies to
\* tokens that live a second or more makes it Authenticated, one that sets
\* both to a value that is no token and lives less than a second (Max-Age 0)
\* makes it Anonymous, any other response leaves it as it is.
Sessions == {"Anonymous", "Authenticated"}
SessionAfter(session, r) ==
    IF /\ r.access_cookie.set /\ r.refresh_cookie.set
       /\ r.access_cookie.value.kind = "jwt" /\ r.refresh_cookie.value.kind = "jwt"
       /\ r.access_cookie.maxAge >= 1000 /\ r.refresh_cookie.maxAge >= 1000
    THEN "Authenticated"
    ELSE IF /\ r.access_cookie.set /\ r.refresh_cookie.set
            /\ r.access_cookie.value = NoToken /\ r.refresh_cookie.value = NoToken
            /\ r.access_cookie.maxAge < 1000 /\ r.refresh_cookie.maxAge < 1000
    THEN "Anonymous"
    ELSE session

\* C18: in every build and from either session state, the response of a
\* successful Login makes the session Authenticated (both cookies set to the
\* tokens), the response of Logout is a success and makes it Anonymous, and
\* the response of a failed Login, of Register and of Activate leaves the
\* session as it was.
C18_SessionTransitions ==
    \A tgt \in BuildTargets, session \in Sessions :
        LET r == ResponseOf(last, tgt)
            after == SessionAfter(session, r)
        IN  /\ (last.op = "login" /\ last.via = "res")
               => /\ after = "Authenticated"
                  /\ r.access_cookie.value = r.accessToken
                  /\ r.access_cookie.maxAge = AccessTokenExpire * 1000
                  /\ r.refresh_cookie.maxAge = RefreshTokenExpire * 1000
            /\ (last.op = "login" /\ last.via = "next") => after = session
            /\ last.op = "logout"
               => /\ last.via = "res" /\ r.status = 200 /\ r.success
                  /\ after = "Anonymous"
            /\ last.op \in {"register", "activate"} => after = session

\* a Login that failed after one that had succeeded for the same account
C18_Witness ==
    /\ last.op = "login" /\ last.via = "next"
    /\ last.cause = "wrong_password"
    /\ \E id \in DOMAIN redis : redis[id].email = last.args.email

\* C19: when the rendering or the delivery of the activation mail fails,
\* Register ends as a failure: the handler leaves through the error path, no
\* build's response reports success or carries the activation token, and the
\* token is not issued.
C19_DeliveryFailureFailsRegister ==
    [][ (last'.op = "register" /\ last'.cause = "delivery")
        => ( /\ last'.via = "next"
             /\ last'.message \in DeliveryFaults
             /\ \A tgt \in BuildTargets :
                   /\ ~ResponseOf(last', tgt).success
                   /\ ResponseOf(last', tgt).status >= 400
                   /\ ResponseOf(last', tgt).activationToken = NoToken
             /\ issued' = issued /\ mails' = mails ) ]_vars

C19_Witness ==
    /\ last.op = "register" /\ last.cause = "delivery"
    /\ last.message = MailFaultMsg
    /\ issued = {}

\* the token is refused as a bad token when verified with the secret
CrossKindRejected(token, secret) ==
    /\ ~JwtVerify(token, secret, now).ok
    /\ JwtVerify(token, secret, now).name = "JsonWebTokenError"

C21_AccessTokenRoundTrip ==
    (last.op = "login" /\ last.via = "res")
        => LET u == FindOne(users, last.args.email)
               v == JwtVerify(last.body.accessToken, env.JWT_ACCESS_TOKEN, now)
           IN  /\ v.ok
               /\ v.token.id = u.id
               /\ \A i \in 1..Len(users) : users[i].email # u.email => v.token.id # users[i].id
               /\ v.token.user = NoUser /\ v.token.activationCode = ""
               /\ \A t \in Instants : JwtVerify(last.body.accessToken,
                                                env.JWT_ACCESS_TOKEN, t).ok

\* the second account logs in while the first has a session
C21_Witness ==
    /\ last.op = "login" /\ last.via = "res"
    /\ Len(users) = 2
    /\ last.body.accessToken.id = 2
    /\ 1 \in DOMAIN redis

\* C22: whatever the random source returns, the activation code made by
\* createActivationToken, in the current and in the earlier variant, is the
\* decimal form of an integer in 1000..9999: so is every code mailed and every
\* code embedded in a token.
FourDigitCodes == {ToString(n) : n \in CodeBase..(CodeBase + CodeSpan - 1)}

C22_CodeHasFourDigits ==
    /\ \A k \in RandomNums : ActivationCodeOf(k) \in FourDigitCodes
    /\ \A m \in BagToSet(mails) : m.code \in FourDigitCodes
    /\ \A t \in issued : t.activationCode \in FourDigitCodes

\* C23: the activation token that Register returns does not give away the code
\* Activate asks for: what its holder can read from it is not the code the
\* token was signed over, which only the notification carries.
C23_TokenHidesCode ==
    (last.op = "register" /\ last.via = "res")
        => LET token == last.body.activationToken
           IN  /\ Notification(last.args.email, token.activationCode) \in BagToSet(mails)
               /\ JwtDecode(token).activationCode
                      # JwtVerify(token, env.JWT_ACTIVATION_SECRET, now).token.activationCode

\* C24: every failed attempt of connectDB schedules exactly one new attempt,
\* after the retry delay; once connected connectDB attempts nothing more; and
\* if from some time on the store stays reachable, connectDB gets connected.
ConnectRetries ==
    /\ (db.state = "connecting" /\ db'.state = "waiting")
          => db'.timers = db.timers + 1 /\ db'.delay = RetryDelayMs
    /\ (db.state = "waiting" /\ db'.state # "waiting")
          => db'.state = "connecting" /\ db'.timers = db.timers - 1
    /\ db.state = "waiting" => db.timers = 1
    /\ db.state # "waiting" => db.timers = 0
    /\ db.state = "connected" => db' = db

C24_ConnectRetriesUntilConnected ==
    /\ [][ConnectRetries]_vars
    /\ (<>[]reachable) => <>(db.state = "connected")

\* connected after an attempt that failed
C24_Witness == db.state = "connected" /\ db.failed /\ db.timers = 0

\* C25: per e-mail the registration state only moves forward, one stage at a
\* time, Unregistered -> PendingActivation -> Active: a UserRecord that exists
\* is never removed or replaced, and every Register that arrives for its
\* e-mail afterwards fails as a duplicate.
EmailsKnown == {r.email : r \in Registrations} \cup {ForgedToken.user.email}
\* 0 Unregistered, 1 PendingActivation (a token was issued for it), 2 Active
Stage(store, tokens, email) ==
    IF \E i \in 1..Len(store) : store[i].email = email THEN 2
    ELSE IF \E t \in tokens : t.user.email = email THEN 1
    ELSE 0

C25_RegistrationMovesForward ==
    [][ /\ (users' # users \/ issued' # issued)
           => /\ \A e \in EmailsKnown :
                    Stage(users', issued', e) \in {Stage(users, issued, e),
                                                  Stage(users, issued, e) + 1}
              /\ Len(users') >= Len(users)
              /\ \A i \in 1..Len(users) : users'[i] = users[i]
        /\ ( /\ last'.op = "register"
             /\ UsedAtArrival(last', last'.args.email)
             /\ last'.cause # "store" )
           => ( /\ last'.via = "next" /\ last'.cause = "exists"
                /\ Stage(users', issued', last'.args.email) = 2 ) ]_vars

\* a Register for an active e-mail, made after its token has expired
C25_Witness ==
    /\ last.op = "register" /\ last.cause = "exists"
    /\ Stage(users, issued, last.args.email) = 2
    /\ \E t \in issued : t.user.email = last.args.email /\ t.exp <= now

\* C26: when a stored document is saved with its password unmodified, the
\* pre-save hook calls next once and hashes nothing: the document keeps its
\* hash, in the store and in memory, and comparePassword of the password it
\* was registered with is still true.
C26_UnmodifiedPasswordKept ==
    hook.saves > 0
        => /\ hook.nextCalls = 1
           /\ \E i \in 1..Len(users) : hook.password = users[i].password
           /\ \A i \in 1..Len(users) : comparePassword(users[i], origin[i].user.password)

\* C27: in every build ErrorMiddleware answers {success: false, message} with
\* the status and message of the error it is given, 500 and "Internal Server
\* Error" where the error has none, and 400 with the custom message for a
\* CastError, a JsonWebTokenError, a TokenExpiredError or code 11000.
ExpectedAnswer(err) ==
    IF err.name = "CastError"
    THEN JsonResp(400, FALSE, "Resource not found. Invalid: path")
    ELSE IF err.code = 11000
    THEN JsonResp(400, FALSE, "Duplicate email entered")
    ELSE IF err.name = "JsonWebTokenError"
    THEN JsonResp(400, FALSE, "JSON Web Token is invalid. Try Again!!!")
    ELSE IF err.name = "TokenExpiredError"
    THEN JsonResp(400, FALSE, "JSON Web Token is expired. Try Again!!!")
    ELSE JsonResp(IF err.statusCode = 0 THEN 500 ELSE err.statusCode, FALSE,
                  IF err.message = "" THEN "Internal Server Error" ELSE err.message)

C27_MiddlewareAnswersWithErrorStatus ==
    \A tgt \in BuildTargets :
        /\ last.via = "next"
           => ResponseOf(last, tgt) = JsonResp(last.statusCode, FALSE, last.message)
        /\ \A err \in PlainErrors : ErrorMiddleware(err, tgt) = ExpectedAnswer(err)

\* C28: every request handled by registerUser, activateUser, loginUser or
\* logoutUser ends in exactly one outcome: one success response sent by the
\* handler, or one call of next with an error and nothing sent; a handler
\* that waits for a collaborator can always go on, and where the collaborator
\* throws the outcome is the call of next.
CollaboratorFaults ==
    {"store", "delivery", "sign", "JsonWebTokenError", "TokenExpiredError",
     "ValidationError", "MongoServerError"}

\* the step ends the request of client p
Ends(p) == (pc[p] # "idle" /\ pc'[p] = "idle") \/ last'.client = p

OneOutcome(done) ==
    /\ done.op \in {"register", "activate", "login", "logout"}
    /\ \/ /\ done.via = "res"
          /\ done.body.sent = "json" /\ done.body.success
          /\ done.message = "" /\ done.statusCode = 0
       \/ /\ done.via = "next"
          /\ done.body = NoResp
          /\ done.message # "" /\ done.statusCode # 0
    /\ done.cause \in CollaboratorFaults => done.via = "next"

C28_ExactlyOneOutcome ==
    /\ [](\A p \in Clients :
            /\ pc[p] \in {"idle", "reg_find", "reg_send", "act_find", "act_create",
                          "login_find", "login_compare"}
            /\ pc[p] # "idle"
               => ENABLED (\/ RegisterFind(p) \/ RegisterSend(p) \/ ActivateFind(p)
                           \/ ActivateCreate(p) \/ LoginFind(p) \/ LoginCompare(p)))
    /\ [][\A p \in Clients : Ends(p) => last'.client = p /\ OneOutcome(last')]_vars

\* the token codec throws inside sendToken, after the store and the password
\* comparison have answered
C28_Witness ==
    /\ last.op = "login" /\ last.via = "next" /\ last.cause = "sign"
    /\ last.body = NoResp
    /\ Len(users) > 0

\* C29: a Login that fails for a missing e-mail or password, an unknown
\* e-mail or a wrong password issues no token, sets no cookie in any build and
\* leaves the Session Cache as it was; with the e-mail or the password missing
\* it fails with status 400 in the step of its arrival, before findOne is
\* awaited.
C29_FailedLoginChangesNothing ==
    [][ ( /\ last'.op = "login"
          /\ \/ last'.args.email = NoEmail \/ last'.args.password = ""
             \/ last'.cause \in {"missing", "unknown_email", "wrong_password"} )
        => ( /\ last'.via = "next" /\ last'.body = NoResp
             /\ redis' = redis
             /\ \A tgt \in BuildTargets :
                   LET r == ResponseOf(last', tgt)
                   IN  /\ r.accessToken = NoToken
                       /\ ~r.access_cookie.set /\ ~r.refresh_cookie.set
             /\ (last'.args.email = NoEmail \/ last'.args.password = "")
                <=> last'.cause = "missing"
             /\ last'.cause = "missing"
                => /\ last'.statusCode = 400
                   /\ Idle(last'.client)
                   /\ last'.began = [len |-> Len(users), at |-> now] ) ]_vars

\* a Login without password while a session of the user is in the cache
C29_Witness ==
    /\ last.op = "login" /\ last.cause = "missing"
    /\ last.args.email = EmailA
    /\ 1 \in DOMAIN redis

\* C30: every Register for an e-mail that has no UserRecord succeeds and
\* returns a token of its own, signed over the code that was mailed; no step
\* takes an issued token back; each issued token is redeemable with its own
\* code until it expires or the e-mail is activated, whatever other tokens were
\* issued for the e-mail; and once one of them has been redeemed the others
\* fail as duplicates.
RegisterIssues ==
    ( /\ last'.op = "register"
      /\ UnusedAtArrival(last', last'.args.email)
      /\ FindOne(users', last'.args.email) = NoDoc
      /\ last'.cause \notin {"store", "delivery", "sign"} )
    => ( /\ last'.via = "res"
         /\ last'.body.activationToken \in issued'
         /\ last'.body.activationToken.user.email = last'.args.email
         /\ last'.body.activationToken.iat >= last'.began.at
         /\ Notification(last'.args.email, last'.body.activationToken.activationCode)
               \in BagToSet(mails') )

\* the step creates the UserRecord of the token it redeems
Redeemed ==
    /\ last'.via = "res"
    /\ Len(users') = Len(users) + 1
    /\ origin'[Len(users')] = last'.args.token
    /\ users'[Len(users')].email = last'.args.token.user.email

OthersFailAsDuplicates ==
    ( /\ RedeemsIssuedToken(last')
      /\ UsedAtArrival(last', last'.args.token.user.email)
      /\ last'.cause # "store" )
    => ( last'.via = "next" /\ last'.cause = "exists" /\ users' = users )

C30_EveryPendingTokenRedeemable ==
    [][ /\ RegisterIssues
        /\ issued \subseteq issued'
        /\ ( /\ RedeemsIssuedToken(last')
             /\ UnusedAtArrival(last', last'.args.token.user.email)
             /\ last'.cause # "store" )
           => Redeemed
        /\ OthersFailAsDuplicates ]_vars

\* C30 as amended: the same, for registrations whose fields pass the store's
\* validation.
C30_ValidPendingTokenRedeemable ==
    [][ /\ RegisterIssues
        /\ issued \subseteq issued'
        /\ ( /\ RedeemsIssuedToken(last')
             /\ ValidFields(last'.args.token.user)
             /\ UnusedAtArrival(last', last'.args.token.user.email)
             /\ last'.cause # "store" )
           => Redeemed
        /\ OthersFailAsDuplicates ]_vars

\* one of two tokens issued for the e-mail has been redeemed, and now the other
\* is refused as a duplicate
C30_Witness ==
    /\ last.op = "activate" /\ last.cause = "exists"
    /\ RedeemsIssuedToken(last)
    /\ \E i \in 1..Len(users) :
          /\ origin[i] \in issued /\ origin[i] # last.args.token
          /\ origin[i].user.email = last.args.token.user.email
          /\ origin[i].activationCode # last.args.token.activationCode

\* C31: Register does not validate the fields: for a password shorter than 6
\* characters or an e-mail that does not match the pattern it still returns
\* an activation token and sends the notification; the registration is
\* rejected when its token is redeemed, by the validation of userModel.create,
\* as a failure of status 400 that creates no UserRecord.
InvalidFields(u) ==
    \/ ~EmailRegexTest(u.email)
    \/ u.password # "" /\ Len(u.password) < PasswordMinLength

C31_InvalidFieldsRejectedAtActivate ==
    /\ ( /\ last.op = "register"
         /\ InvalidFields(last.args)
         /\ UnusedAtArrival(last, last.args.email)
         /\ last.cause \notin {"store", "delivery", "sign"} )
       => ( /\ last.via = "res"
            /\ last.body.activationToken \in issued
            /\ last.body.activationToken.user.password = last.args.password
            /\ last.body.activationToken.user.email = last.args.email
            /\ Notification(last.args.email, last.body.activationToken.activationCode)
                  \in BagToSet(mails) )
    /\ ( /\ RedeemsIssuedToken(last)
         /\ InvalidFields(last.args.token.user)
         /\ UnusedAtArrival(last, last.args.token.user.email)
         /\ last.cause # "store" )
       => ( /\ last.via = "next"
            /\ last.cause = "ValidationError"
            /\ last.message = ValidationFailure(last.args.token.user.name,
                                                last.args.token.user.email,
                                                last.args.token.user.password)
            /\ last.message # ""
            /\ last.statusCode = 400
            /\ Len(users) = last.began.len
            /\ \A i \in 1..Len(users) : origin[i] # last.args.token )

\* the token of a registration with a 3-character password is refused
C31_Witness ==
    /\ RedeemsIssuedToken(last)
    /\ last.cause = "ValidationError"
    /\ last.args.token.user.password = "abc"
    /\ Notification(last.args.token.user.email, last.args.code) \in BagToSet(mails)
    /\ users = <<>>

\* C32: whether a Login succeeds depends only on there being a UserRecord for
\* the e-mail and on the password matching it: isVerified is not looked at,
\* and a user whose isVerified is false logs in and receives the tokens.
C32_LoginIgnoresIsVerified ==
    ( /\ last.op = "login"
      /\ last.args.email # NoEmail /\ last.args.password # ""
      /\ last.cause \notin {"store", "sign"}
      /\ SecretsSet )
    => LET known == \E i \in 1..Len(users) :
                       i <= last.began.len /\ users[i].email = last.args.email
       IN  /\ LoginSucceeds(last) <=> LoginOfActivatedUser(last)
           /\ ~known <=> last.cause = "unknown_email"
           /\ (known /\ ~LoginOfActivatedUser(last)) <=> last.cause = "wrong_password"
           /\ last.via = "res" <=> LoginSucceeds(last)

\* a user whose isVerified is false has logged in
C32_Witness ==
    /\ last.op = "login" /\ LoginSucceeds(last)
    /\ ~last.body.user.isVerified
    /\ last.body.access_cookie.value.kind = "jwt"
    /\ last.body.user.id \in DOMAIN redis
====
